---- MODULE Spec2Model ----
(***************************************************************************)
(* Model of the snake game of src/snake/src/main.rs: the grid arithmetic   *)
(* (GridPosition), the direction type (Direction), the snake's per-tick    *)
(* step (Snake::update) and the two event handlers of GameState that       *)
(* change simulation state (EventHandler::update and key_down_event).      *)
(* Drawing (draw) reads the state and changes nothing; it is not modelled. *)
(***************************************************************************)
EXTENDS Integers, Sequences, FiniteSets

(* ------------------------------------------------------------------ *)
(* Bounds of the model.                                                *)
(* ------------------------------------------------------------------ *)

\* Grid width and height. The program fixes GRID_SIZE = (30, 20); the model
\* keeps the code's arithmetic (W/4, H/2, rem_euclid by W and H) and shrinks
\* the grid so that the state space is finite and small. W >= 4 keeps the
\* start column W/4 - 1 of Snake::new inside the grid, as it is for 30.
W == 4
H == 3

\* The snake eats only while its body has fewer than MaxBody segments.
MaxBody == 2

\* The time between two calls of update is FrameMillis (one frame of the
\* event loop, shorter than the update interval) or a whole update interval.
FrameMillis == 100

\* The observed runs (SpecTrace) end MaxTime milliseconds after the start.
MaxTime == 500

\* The number of moves of the probe (SpecMove).
MaxMoves == 9

(* ------------------------------------------------------------------ *)
(* Program constants.                                                  *)
(* ------------------------------------------------------------------ *)

GRID_SIZE == <<W, H>>

\* (1.0 / UPDATES_PER_SECOND * 1000.0) as u64 with UPDATES_PER_SECOND = 8.0
MILLIS_PER_UPDATE == 125

(* ------------------------------------------------------------------ *)
(* GridPosition                                                        *)
(* ------------------------------------------------------------------ *)

\* GridPosition::new(x, y) / From<(i16, i16)>: no range validation.
GridPosition(x, y) == [x |-> x, y |-> y]

\* GridPosition::random with both ranges starting at 1 instead of 0.
random_from_one(max_x, max_y) ==
    { GridPosition(x, y) : x \in 1 .. (max_x - 1), y \in 1 .. (max_y - 1) }

\* The values GridPosition::random(max_x, max_y) can return: gen_range(0, max)
\* draws from the half-open range [0, max).
random(max_x, max_y) ==
    { GridPosition(x, y) : x \in 0 .. (max_x - 1), y \in 0 .. (max_y - 1) }

\* i16::rem_euclid with a truncating remainder in its place (Rust's %):
\* the sign of the result follows the dividend.
rem_trunc(a, n) == IF a < 0 THEN 0 - ((0 - a) % n) ELSE a % n

\* i16::rem_euclid(a, n) for n > 0: the non-negative remainder.
rem_euclid(a, n) == a % n

\* wrapped_move with the vertical moves wrapped by the grid's width.
wrapped_move_by_width(pos, dir) ==
    CASE dir = "Up"    -> GridPosition(pos.x, rem_euclid(pos.y - 1, GRID_SIZE[1]))
      [] dir = "Down"  -> GridPosition(pos.x, rem_euclid(pos.y + 1, GRID_SIZE[1]))
      [] dir = "Left"  -> GridPosition(rem_euclid(pos.x - 1, GRID_SIZE[1]), pos.y)
      [] dir = "Right" -> GridPosition(rem_euclid(pos.x + 1, GRID_SIZE[1]), pos.y)

\* GridPosition::wrapped_move(pos, dir)
wrapped_move(pos, dir) ==
    CASE dir = "Up"    -> GridPosition(pos.x, rem_euclid(pos.y - 1, GRID_SIZE[2]))
      [] dir = "Down"  -> GridPosition(pos.x, rem_euclid(pos.y + 1, GRID_SIZE[2]))
      [] dir = "Left"  -> GridPosition(rem_euclid(pos.x - 1, GRID_SIZE[1]), pos.y)
      [] dir = "Right" -> GridPosition(rem_euclid(pos.x + 1, GRID_SIZE[1]), pos.y)

(* ------------------------------------------------------------------ *)
(* Direction                                                           *)
(* ------------------------------------------------------------------ *)

Direction == {"Up", "Down", "Left", "Right"}

\* Option::None, for Option<Direction> and Option<Ate>.
None == "None"

\* The key codes the event loop can deliver: the four arrow keys, and "Other"
\* standing for every other ggez KeyCode (they all take the `_` arm).
KeyCode == {"Up", "Down", "Left", "Right", "Other"}

\* Direction::inverse
inverse(d) ==
    CASE d = "Up"    -> "Down"
      [] d = "Down"  -> "Up"
      [] d = "Left"  -> "Right"
      [] d = "Right" -> "Left"

\* from_keycode with every unrecognised key read as Up.
from_keycode_default_up(key) ==
    IF key \in Direction THEN key ELSE "Up"

\* Direction::from_keycode: Some(direction) or None.
from_keycode(key) ==
    CASE key = "Up"    -> "Up"
      [] key = "Down"  -> "Down"
      [] key = "Left"  -> "Left"
      [] key = "Right" -> "Right"
      [] OTHER         -> None

(* ------------------------------------------------------------------ *)
(* Snake                                                               *)
(* A Segment only wraps a GridPosition, and so does Food: head, the    *)
(* elements of body and food are modelled as positions.                *)
(* ------------------------------------------------------------------ *)

\* Ate, as held in Option<Ate>: "Itself", "Food" or None.
Ate == {"Itself", "Food"}

\* Snake::new(pos)
Snake_new(pos) ==
    [ head            |-> GridPosition(pos.x, pos.y),
      dir             |-> "Right",
      last_update_dir |-> "Right",
      body            |-> << GridPosition(pos.x - 1, pos.y) >>,
      ate             |-> None,
      next_dir        |-> None ]

\* Snake::eats
eats(s, food_pos) == s.head = food_pos

\* Snake::eats_self
eats_self(s) == \E i \in 1 .. Len(s.body) : s.head = s.body[i]

\* LinkedList::pop_back on a list that may be empty.
pop_back(body) == IF Len(body) = 0 THEN body ELSE SubSeq(body, 1, Len(body) - 1)

\* Snake::update with the food test made before the self-collision test.
Snake_update_food_first(s, food_pos) ==
    LET c == IF s.last_update_dir = s.dir /\ s.next_dir # None
             THEN [s EXCEPT !.dir = s.next_dir, !.next_dir = None]
             ELSE s
        p == [c EXCEPT !.body = <<c.head>> \o c.body,
                       !.head = wrapped_move(c.head, c.dir)]
        a == IF eats(p, food_pos) THEN "Food"
             ELSE IF eats_self(p) THEN "Itself"
             ELSE None
    IN  [p EXCEPT !.ate = a,
                  !.body = IF a = None THEN pop_back(p.body) ELSE p.body,
                  !.last_update_dir = p.dir]

\* Snake::update with the tail trimmed on every tick.
Snake_update_always_trim(s, food_pos) ==
    LET c == IF s.last_update_dir = s.dir /\ s.next_dir # None
             THEN [s EXCEPT !.dir = s.next_dir, !.next_dir = None]
             ELSE s
        p == [c EXCEPT !.body = <<c.head>> \o c.body,
                       !.head = wrapped_move(c.head, c.dir)]
        a == IF eats_self(p) THEN "Itself"
             ELSE IF eats(p, food_pos) THEN "Food"
             ELSE None
    IN  [p EXCEPT !.ate = a,
                  !.body = pop_back(p.body),
                  !.last_update_dir = p.dir]

\* Snake::update with the tail never trimmed.
Snake_update_never_trim(s, food_pos) ==
    LET c == IF s.last_update_dir = s.dir /\ s.next_dir # None
             THEN [s EXCEPT !.dir = s.next_dir, !.next_dir = None]
             ELSE s
        p == [c EXCEPT !.body = <<c.head>> \o c.body,
                       !.head = wrapped_move(c.head, c.dir)]
        a == IF eats_self(p) THEN "Itself"
             ELSE IF eats(p, food_pos) THEN "Food"
             ELSE None
    IN  [p EXCEPT !.ate = a,
                  !.last_update_dir = p.dir]

\* Snake::update with the self-collision test made against the body
\* without its last segment (the tail trimmed before the test).
Snake_update_trim_first(s, food_pos) ==
    LET c == IF s.last_update_dir = s.dir /\ s.next_dir # None
             THEN [s EXCEPT !.dir = s.next_dir, !.next_dir = None]
             ELSE s
        p == [c EXCEPT !.body = <<c.head>> \o c.body,
                       !.head = wrapped_move(c.head, c.dir)]
        a == IF eats_self([p EXCEPT !.body = pop_back(p.body)]) THEN "Itself"
             ELSE IF eats(p, food_pos) THEN "Food"
             ELSE None
    IN  [p EXCEPT !.ate = a,
                  !.body = IF a = None THEN pop_back(p.body) ELSE p.body,
                  !.last_update_dir = p.dir]

\* Snake::update(&mut self, food): the snake after one tick.
\*   c: after the direction commit (lines 201-204)
\*   p: after the old head is pushed and the head moved (lines 206-211)
\*   a: the outcome (lines 213-219)
Snake_update(s, food_pos) ==
    LET c == IF s.last_update_dir = s.dir /\ s.next_dir # None
             THEN [s EXCEPT !.dir = s.next_dir, !.next_dir = None]
             ELSE s
        p == [c EXCEPT !.body = <<c.head>> \o c.body,
                       !.head = wrapped_move(c.head, c.dir)]
        a == IF eats_self(p) THEN "Itself"
             ELSE IF eats(p, food_pos) THEN "Food"
             ELSE None
    IN  [p EXCEPT !.ate = a,
                  !.body = IF a = None THEN pop_back(p.body) ELSE p.body,
                  !.last_update_dir = p.dir]

(* ------------------------------------------------------------------ *)
(* GameState                                                           *)
(* ------------------------------------------------------------------ *)

VARIABLES
    snake,      \* GameState.snake, a record as built by Snake_new
    food,       \* GameState.food.pos
    gameover,   \* GameState.gameover
    elapsed,    \* milliseconds between GameState.last_update and the latest
                \* update call (0 when that call refreshed last_update)
    last_op,    \* history: the handler that ran last, its input, and what it
                \* saw on entry
    clock,      \* observer: the time of the latest update call, in
                \* milliseconds since GameState::new
    applied,    \* observer: the number of snake steps applied so far
    ended,      \* observer: gameover has been true at some time
    turns,      \* observer: progress of a pair of quick turns (see TurnsOnKey)
    probe       \* a position moved by wrapped_move alone (see Move)

vars == <<snake, food, gameover, elapsed, last_op,
          clock, applied, ended, turns, probe>>

\* The game itself, and what only observes it.
game == <<snake, food, gameover, elapsed, last_op>>
observers == <<clock, applied, ended, turns, probe>>

\* The start position of GameState::new and of the restart.
snake_pos == GridPosition(GRID_SIZE[1] \div 4, GRID_SIZE[2] \div 2)

\* history record written by the handlers
Op(kind, key, passed) ==
    [ kind    |-> kind,          \* "new", "update" or "key"
      key     |-> key,           \* the key code of a key press
      passed  |-> passed,        \* update: the timestep gate passed
      over    |-> gameover,      \* gameover on entry
      pending |-> snake.dir # snake.last_update_dir ]   \* a turn was pending on entry

\* The delays between two calls of update.
Delays == {FrameMillis, MILLIS_PER_UPDATE}

\* GameState::new
Init ==
    /\ snake = Snake_new(snake_pos)
    /\ food \in random(GRID_SIZE[1], GRID_SIZE[2])
    /\ gameover = FALSE
    /\ elapsed = 0
    /\ last_op = [kind |-> "new", key |-> "Other", passed |-> FALSE,
                  over |-> FALSE, pending |-> FALSE]

\* The timestep gate of update with the game-over test left out.
steps_ignoring_gameover(e, over) == e >= MILLIS_PER_UPDATE

\* The timestep gate of update with the elapsed time left out.
steps_at_any_time(e, over) == ~over

\* Lines 277-278: the snake is stepped when at least MILLIS_PER_UPDATE has
\* elapsed and the game is not over.
steps(e, over) == e >= MILLIS_PER_UPDATE /\ ~over

\* EventHandler::update, called d milliseconds after the previous update
\* call: now is the value of Instant::now() - self.last_update at line 277.
\* Line 294 reads the clock a second time; the time between the two reads
\* is taken to be zero.
Update(d) ==
    LET now == elapsed + d IN
    /\ IF steps(now, gameover)
       THEN LET s == Snake_update(snake, food) IN
            /\ s.ate = "Food" => Len(snake.body) < MaxBody
            /\ snake' = s
            /\ IF s.ate = "Food"
               THEN /\ food' \in random(GRID_SIZE[1], GRID_SIZE[2])
                    /\ gameover' = gameover
               ELSE IF s.ate = "Itself"
               THEN /\ gameover' = TRUE
                    /\ food' = food
               ELSE UNCHANGED <<food, gameover>>
       ELSE UNCHANGED <<snake, food, gameover>>
    /\ elapsed' = IF now >= MILLIS_PER_UPDATE THEN 0 ELSE now
    /\ last_op' = Op("update", "Other", now >= MILLIS_PER_UPDATE)

\* steer with a pending turn always buffering the new direction.
steer_buffer_any(s, key) ==
    LET dir == from_keycode(key) IN
    IF dir = None THEN s
    ELSE IF s.dir # s.last_update_dir
    THEN [s EXCEPT !.next_dir = dir]
    ELSE IF inverse(dir) # s.last_update_dir
    THEN [s EXCEPT !.dir = dir]
    ELSE s

\* steer with the immediate turn applied without the reversal guard.
steer_unguarded(s, key) ==
    LET dir == from_keycode(key) IN
    IF dir = None THEN s
    ELSE IF s.dir # s.last_update_dir /\ inverse(dir) # s.dir
    THEN [s EXCEPT !.next_dir = dir]
    ELSE [s EXCEPT !.dir = dir]

\* steer with a key pressed while a turn is pending dropped.
steer_drop_second(s, key) ==
    LET dir == from_keycode(key) IN
    IF dir = None THEN s
    ELSE IF s.dir # s.last_update_dir
    THEN s
    ELSE IF inverse(dir) # s.last_update_dir
    THEN [s EXCEPT !.dir = dir]
    ELSE s

\* key_down_event, lines 327-333: the snake after the key is interpreted.
steer(s, key) ==
    LET dir == from_keycode(key) IN
    IF dir = None THEN s
    ELSE IF s.dir # s.last_update_dir /\ inverse(dir) # s.dir
    THEN [s EXCEPT !.next_dir = dir]
    ELSE IF inverse(dir) # s.last_update_dir
    THEN [s EXCEPT !.dir = dir]
    ELSE s

\* restarts with a restart only on a key that maps to a direction.
restarts_on_direction_key(over, key) == over /\ from_keycode(key) # None

\* Line 335: the session is reset when the handler runs while gameover is set.
restarts(over, key) == over

\* EventHandler::key_down_event
KeyDown(keycode) ==
    /\ IF restarts(gameover, keycode)
       THEN /\ snake' = Snake_new(snake_pos)
            /\ food' \in random(GRID_SIZE[1], GRID_SIZE[2])
            /\ gameover' = FALSE
       ELSE /\ snake' = steer(snake, keycode)
            /\ UNCHANGED <<food, gameover>>
    /\ UNCHANGED elapsed
    /\ last_op' = Op("key", keycode, FALSE)

\* The observers at rest: the value they keep wherever they are not used.
NoTurns == [stage |-> "none", a |-> None, b |-> None]
NoProbe == [start |-> snake_pos, pos |-> snake_pos, dir |-> "Right", n |-> 0]
ObserversIdle ==
    /\ clock = 0 /\ applied = 0 /\ ended = FALSE
    /\ turns = NoTurns
    /\ probe = NoProbe

\* The event loop: update and key_down_event in any order.
Next ==
    \/ \E d \in Delays : Update(d) /\ UNCHANGED observers
    \/ \E keycode \in KeyCode : KeyDown(keycode) /\ UNCHANGED observers

\* GameState::new, with the observers at rest.
Start == Init /\ ObserversIdle

Spec == Start /\ [][Next]_vars

(* ------------------------------------------------------------------ *)
(* The event loop under observation: the same handlers, with the clock, *)
(* the count of applied steps and the progress of a pair of quick turns *)
(* recorded beside them. update is polled every FrameMillis or every    *)
(* MILLIS_PER_UPDATE milliseconds, never less often than the interval.  *)
(* ------------------------------------------------------------------ *)

\* turns after a key press. A pair of quick turns starts with the press of
\* a direction a perpendicular to the heading, made during play with no
\* turn pending (stage "A"); it goes on with the press of a direction b
\* that is not the inverse of a (stage "AB"); any other press ends it.
TurnsOnKey(keycode) ==
    IF gameover THEN NoTurns
    ELSE IF /\ keycode \in Direction
            /\ snake.dir = snake.last_update_dir
            /\ keycode # snake.last_update_dir
            /\ keycode # inverse(snake.last_update_dir)
    THEN [stage |-> "A", a |-> keycode, b |-> None]
    ELSE IF turns.stage = "A" /\ keycode \in Direction
                              /\ keycode # inverse(turns.a)
    THEN [stage |-> "AB", a |-> turns.a, b |-> keycode]
    ELSE NoTurns

\* turns after an applied tick: the first tick after the two presses leads
\* to stage "B" unless it ends the game, the second to stage "done".
TurnsOnTick(over_after) ==
    IF turns.stage = "AB" /\ ~over_after
    THEN [turns EXCEPT !.stage = "B"]
    ELSE IF turns.stage = "B"
    THEN [turns EXCEPT !.stage = "done"]
    ELSE NoTurns

\* EventHandler::update, called d milliseconds after the previous call.
PolledUpdate(d) ==
    /\ clock + d <= MaxTime
    /\ Update(d)
    /\ clock' = clock + d
    /\ applied' = IF steps(elapsed + d, gameover) THEN applied + 1 ELSE applied
    /\ turns' = IF steps(elapsed + d, gameover)
                THEN TurnsOnTick(gameover') ELSE turns
    /\ ended' = (ended \/ gameover')
    /\ UNCHANGED probe

\* EventHandler::key_down_event
ObservedKeyDown(keycode) ==
    /\ KeyDown(keycode)
    /\ turns' = TurnsOnKey(keycode)
    /\ UNCHANGED <<clock, applied, ended, probe>>

TraceNext ==
    \/ \E d \in Delays : PolledUpdate(d)
    \/ \E keycode \in KeyCode : ObservedKeyDown(keycode)

SpecTrace == Start /\ [][TraceNext]_vars

(* ------------------------------------------------------------------ *)
(* wrapped_move on its own: a position moved over and over in one       *)
(* direction, from every cell of the grid and in every direction.       *)
(* ------------------------------------------------------------------ *)

MoveStart ==
    /\ Init
    /\ clock = 0 /\ applied = 0 /\ ended = FALSE /\ turns = NoTurns
    /\ \E p \in random(GRID_SIZE[1], GRID_SIZE[2]), d \in Direction :
           probe = [start |-> p, pos |-> p, dir |-> d, n |-> 0]

\* One application of wrapped_move to the probe.
Move ==
    /\ probe.n < MaxMoves
    /\ probe' = [probe EXCEPT !.pos = wrapped_move(probe.pos, probe.dir),
                              !.n = probe.n + 1]
    /\ UNCHANGED <<game, clock, applied, ended, turns>>

SpecMove == MoveStart /\ [][Move]_vars

(* ------------------------------------------------------------------ *)
(* Vocabulary of the properties.                                       *)
(* ------------------------------------------------------------------ *)

\* The step is a call of update / a press of a key (every handler writes
\* last_op, so last_op' names the handler that takes the step).
UpdateRan == last_op'.kind = "update"
KeyRan == last_op'.kind = "key"

\* The step is a tick: a call of update that stepped the snake.
Ticked == UpdateRan /\ last_op'.passed /\ ~gameover

\* The direction a key press asks for (None for an unrecognised key),
\* read off the four arrow keys without going through from_keycode.
pressed == IF last_op'.key \in Direction THEN last_op'.key ELSE None

InGrid(p) == p.x \in 0 .. (W - 1) /\ p.y \in 0 .. (H - 1)

\* The cells of the body once the old head is pushed, before any trim.
pushed_body == <<snake.head>> \o snake.body

OnSeq(p, seq) == \E i \in 1 .. Len(seq) : seq[i] = p

(* ------------------------------------------------------------------ *)
(* C1                                                                  *)
(* ------------------------------------------------------------------ *)

\* C1: the direction the snake moves in on a tick is never the inverse of
\* the direction it moved in on the preceding tick of the session.
\* last_update_dir holds the direction of the preceding tick (at the start
\* of a session, the heading Right the snake is created with); after the
\* tick it holds the direction just applied.
C1_NoReversalBetweenTicks ==
    [][Ticked => snake'.last_update_dir # inverse(snake.last_update_dir)]_vars

(* ------------------------------------------------------------------ *)
(* C2                                                                  *)
(* ------------------------------------------------------------------ *)

\* C2 as stated: with gameover false, a press of the inverse of the current
\* heading last_update_dir leaves dir and next_dir unchanged, a turn pending
\* or not.
C2_InverseOfHeadingChangesNothing ==
    [][(KeyRan /\ ~gameover /\ pressed = inverse(snake.last_update_dir))
        => (snake'.dir = snake.dir /\ snake'.next_dir = snake.next_dir)]_vars

\* C2 as amended: with gameover false, a press of the inverse of the current
\* heading never changes dir; it leaves next_dir unchanged when no turn is
\* pending, and is buffered as next_dir when a turn is pending.
C2_InverseOfHeadingNeverApplied ==
    [][(KeyRan /\ ~gameover /\ pressed = inverse(snake.last_update_dir))
        => /\ snake'.dir = snake.dir
           /\ snake.dir = snake.last_update_dir
                => snake'.next_dir = snake.next_dir
           /\ snake.dir # snake.last_update_dir
                => snake'.next_dir = pressed]_vars

\* C2 witness: the inverse of the heading was pressed while a turn was
\* pending, and sits in next_dir.
C2_Witness ==
    /\ last_op.kind = "key" /\ ~last_op.over /\ last_op.pending
    /\ last_op.key = inverse(snake.last_update_dir)
    /\ snake.next_dir = last_op.key
    /\ snake.dir # snake.last_update_dir

(* ------------------------------------------------------------------ *)
(* C3                                                                  *)
(* ------------------------------------------------------------------ *)

\* C3 as stated: with a turn pending, a press of the inverse of the pending
\* direction dir leaves dir unchanged.
C3_InverseOfPendingRejected ==
    [][(KeyRan /\ snake.dir # snake.last_update_dir
              /\ pressed = inverse(snake.dir))
        => snake'.dir = snake.dir]_vars

\* C3 as amended: with a turn pending, a press of the inverse of the pending
\* direction dir is never buffered (next_dir keeps its value); it replaces
\* the pending direction, dir becoming the pressed direction.
C3_InverseOfPendingReplacesIt ==
    [][(KeyRan /\ snake.dir # snake.last_update_dir
              /\ pressed = inverse(snake.dir))
        => (snake'.next_dir = snake.next_dir /\ snake'.dir = pressed)]_vars

\* C3 witness: a key was pressed while a turn was pending and is now dir
\* without having been buffered, which only the press of the inverse of the
\* pending direction does; the direction buffered before is still in place.
C3_Witness ==
    /\ last_op.kind = "key" /\ ~last_op.over /\ last_op.pending
    /\ snake.dir = last_op.key
    /\ snake.next_dir # None
    /\ snake.next_dir # last_op.key

(* ------------------------------------------------------------------ *)
(* C4                                                                  *)
(* ------------------------------------------------------------------ *)

\* C4: on a tick whose new head is on a cell of the body (taken after the
\* old head is pushed) with the food on that same cell, the outcome is
\* Itself: gameover becomes true and the food stays where it is.
C4_SelfCollisionBeforeFood ==
    [][(Ticked /\ OnSeq(snake'.head, pushed_body) /\ food = snake'.head)
        => (snake'.ate = "Itself" /\ gameover' = TRUE /\ food' = food)]_vars

\* C4 witness: the game just ended on a tick with the head on the food.
C4_Witness ==
    /\ last_op.kind = "update" /\ last_op.passed /\ ~last_op.over
    /\ gameover
    /\ snake.ate = "Itself"
    /\ food = snake.head
    /\ OnSeq(snake.head, snake.body)

(* ------------------------------------------------------------------ *)
(* C5                                                                  *)
(* ------------------------------------------------------------------ *)

\* C5: on a tick whose new head is on the food and on no body cell, the
\* outcome is Food, the body is the old head followed by the whole old body
\* (one longer, nothing trimmed), and the food moves to a cell of the grid.
C5_EatingGrows ==
    [][(Ticked /\ food = snake'.head /\ ~OnSeq(snake'.head, pushed_body))
        => /\ snake'.ate = "Food"
           /\ snake'.body = pushed_body
           /\ Len(snake'.body) = Len(snake.body) + 1
           /\ InGrid(food')]_vars

\* C5 witness: the snake just ate and its body has two segments.
C5_Witness ==
    /\ last_op.kind = "update" /\ last_op.passed /\ ~last_op.over
    /\ snake.ate = "Food"
    /\ Len(snake.body) = 2
    /\ ~gameover

(* ------------------------------------------------------------------ *)
(* C6                                                                  *)
(* ------------------------------------------------------------------ *)

\* C6: on a tick with outcome None the snake translates: the new head is
\* wrapped_move(old head, direction of the tick), the new body is the old
\* head followed by the old body without its last segment, and the length
\* is unchanged; from the initial snake such a tick gives head
\* (W/4 + 1, H/2) and body [(W/4, H/2)].
C6_PlainTickTranslates ==
    [][(Ticked /\ snake'.ate = None)
        => /\ snake'.head = wrapped_move(snake.head, snake'.dir)
           /\ snake'.body = <<snake.head>> \o
                  SubSeq(snake.body, 1, Len(snake.body) - 1)
           /\ Len(snake'.body) = Len(snake.body)
           /\ ( /\ snake.head = [x |-> W \div 4, y |-> H \div 2]
                /\ snake.body = << [x |-> (W \div 4) - 1, y |-> H \div 2] >>
                /\ snake.dir = "Right" /\ snake.last_update_dir = "Right"
                /\ snake.next_dir = None )
              => ( /\ snake'.head = [x |-> (W \div 4) + 1, y |-> H \div 2]
                   /\ snake'.body = << [x |-> W \div 4, y |-> H \div 2] >> )
       ]_vars

\* C6 witness: the first tick of a run, taken from the initial snake with no
\* key pressed, with outcome None.
C6_Witness ==
    /\ last_op.kind = "update" /\ last_op.passed /\ ~last_op.over
    /\ snake.ate = None
    /\ snake.head = [x |-> (W \div 4) + 1, y |-> H \div 2]
    /\ snake.body = << [x |-> W \div 4, y |-> H \div 2] >>
    /\ snake.last_update_dir = "Right"

(* ------------------------------------------------------------------ *)
(* C7                                                                  *)
(* ------------------------------------------------------------------ *)

\* C7: once gameover is true, a call of update, its gate passing or not,
\* leaves the snake, the food and gameover unchanged; gameover is cleared
\* only by a key press.
C7_GameOverFreezes ==
    [][ /\ (gameover /\ UpdateRan)
            => (snake' = snake /\ food' = food /\ gameover' = TRUE)
        /\ (gameover /\ ~gameover') => KeyRan ]_vars

\* C7 witness: update ran with its gate passing while the game was over.
C7_Witness ==
    /\ last_op.kind = "update" /\ last_op.passed /\ last_op.over
    /\ gameover

(* ------------------------------------------------------------------ *)
(* C8                                                                  *)
(* ------------------------------------------------------------------ *)

\* C8: any key press while gameover is true, a direction key or not, resets
\* the session: gameover false, head (W/4, H/2), body [(W/4 - 1, H/2)],
\* dir = last_update_dir = Right, next_dir and ate empty, food in the grid.
C8_AnyKeyRestarts ==
    [][(KeyRan /\ gameover)
        => /\ gameover' = FALSE
           /\ snake'.head = [x |-> W \div 4, y |-> H \div 2]
           /\ snake'.body = << [x |-> (W \div 4) - 1, y |-> H \div 2] >>
           /\ snake'.dir = "Right"
           /\ snake'.last_update_dir = "Right"
           /\ snake'.next_dir = None
           /\ snake'.ate = None
           /\ InGrid(food')]_vars

\* C8 witness: a key that maps to no direction was pressed while the game
\* was over, and the session is new.
C8_Witness ==
    /\ last_op.kind = "key" /\ last_op.over /\ last_op.key = "Other"
    /\ ~gameover
    /\ snake.ate = None

(* ------------------------------------------------------------------ *)
(* C9                                                                  *)
(* ------------------------------------------------------------------ *)

\* C9 as stated: in every reachable state, a press of a key that is not one
\* of the four direction keys leaves snake, food and gameover unchanged.
C9_OtherKeyIgnored ==
    [][(KeyRan /\ last_op'.key \notin Direction)
        => (snake' = snake /\ food' = food /\ gameover' = gameover)]_vars

\* C9 as amended: in every reachable state with gameover false, a press of
\* a key that is not one of the four direction keys leaves snake, food and
\* gameover unchanged.
C9_OtherKeyIgnoredWhilePlaying ==
    [][(KeyRan /\ last_op'.key \notin Direction /\ ~gameover)
        => (snake' = snake /\ food' = food /\ gameover' = gameover)]_vars

\* C9 witness: a key that maps to no direction was pressed during play,
\* with a turn pending and a direction buffered.
C9_Witness ==
    /\ last_op.kind = "key" /\ ~last_op.over /\ last_op.key = "Other"
    /\ ~gameover
    /\ snake.dir # snake.last_update_dir
    /\ snake.next_dir # None

(* ------------------------------------------------------------------ *)
(* C10                                                                 *)
(* ------------------------------------------------------------------ *)

\* C10: in every reachable state the head, every body segment and the food
\* have x in [0, W) and y in [0, H); a tick that moves the head off an edge
\* brings it back in at the opposite edge.
C10_PositionsInGrid ==
    /\ [](/\ InGrid(snake.head)
          /\ \A i \in 1 .. Len(snake.body) : InGrid(snake.body[i])
          /\ InGrid(food))
    /\ [][Ticked =>
           /\ (snake.head.x = 0 /\ snake'.last_update_dir = "Left")
                => snake'.head = [x |-> W - 1, y |-> snake.head.y]
           /\ (snake.head.x = W - 1 /\ snake'.last_update_dir = "Right")
                => snake'.head = [x |-> 0, y |-> snake.head.y]
           /\ (snake.head.y = 0 /\ snake'.last_update_dir = "Up")
                => snake'.head = [x |-> snake.head.x, y |-> H - 1]
           /\ (snake.head.y = H - 1 /\ snake'.last_update_dir = "Down")
                => snake'.head = [x |-> snake.head.x, y |-> 0]
         ]_vars

\* C10 witness: the head has just left the grid by its left edge and is
\* back in its last column.
C10_Witness ==
    /\ last_op.kind = "update" /\ last_op.passed /\ ~last_op.over
    /\ snake.last_update_dir = "Left"
    /\ snake.head.x = W - 1
    /\ snake.body[1].x = 0

(* ------------------------------------------------------------------ *)
(* C11                                                                 *)
(* ------------------------------------------------------------------ *)

\* The cells of the snake, head first.
cells == <<snake.head>> \o snake.body

\* C11: in every reachable state with gameover false, the positions of the
\* head and of the body segments are pairwise distinct.
C11_NoOverlapWhilePlaying ==
    ~gameover =>
        \A i, j \in 1 .. Len(cells) : i # j => cells[i] # cells[j]

\* C11 witness: play goes on after a plain tick of a snake of three cells
\* whose head is next to its own tail.
C11_Witness ==
    /\ last_op.kind = "update" /\ last_op.passed /\ ~last_op.over
    /\ ~gameover
    /\ Len(snake.body) = 2
    /\ \E d \in Direction : wrapped_move(snake.head, d) = snake.body[2]

(* ------------------------------------------------------------------ *)
(* C13                                                                 *)
(* ------------------------------------------------------------------ *)

\* C13: a call of update made when less than one interval has elapsed
\* since last_update changes nothing: snake, food and gameover keep their
\* values, and so does last_update (the time since last_update grows by
\* just the delay of the call); the snake is stepped only by calls whose
\* gate passes.
C13_EarlyUpdateIsNoOp ==
    [][ /\ (UpdateRan /\ ~last_op'.passed)
            => /\ snake' = snake /\ food' = food /\ gameover' = gameover
               /\ elapsed' < MILLIS_PER_UPDATE
               /\ \E d \in Delays : elapsed' = elapsed + d
        /\ (UpdateRan /\ snake' # snake) => last_op'.passed ]_vars

\* C13 witness: update ran before the interval was over, during play, with
\* a turn waiting to be applied.
C13_Witness ==
    /\ last_op.kind = "update" /\ ~last_op.passed /\ ~last_op.over
    /\ elapsed = FrameMillis
    /\ snake.dir # snake.last_update_dir

(* ------------------------------------------------------------------ *)
(* C16                                                                 *)
(* ------------------------------------------------------------------ *)

\* C16: a tick whose new head lands on the cell of the snake's current last
\* segment, which a plain move would vacate on that tick, has outcome
\* Itself and sets gameover.
C16_TailCellCollides ==
    [][(Ticked /\ snake'.head = snake.body[Len(snake.body)])
        => (snake'.ate = "Itself" /\ gameover' = TRUE)]_vars

\* C16 witness: the game just ended with the head on the last segment of a
\* body of three, and on no other segment.
C16_Witness ==
    /\ last_op.kind = "update" /\ last_op.passed /\ ~last_op.over
    /\ gameover
    /\ Len(snake.body) = 3
    /\ snake.head = snake.body[3]
    /\ snake.head # snake.body[1] /\ snake.head # snake.body[2]

(* ------------------------------------------------------------------ *)
(* C18                                                                 *)
(* ------------------------------------------------------------------ *)

\* C18: in every reachable state dir is not the inverse of
\* last_update_dir, and right after an applied tick dir = last_update_dir.
C18_DirNeverInverseOfHeading ==
    /\ snake.dir # inverse(snake.last_update_dir)
    /\ (last_op.kind = "update" /\ last_op.passed /\ ~last_op.over)
         => snake.dir = snake.last_update_dir

\* C18 witness: a tick has just committed the buffered direction, which is
\* the inverse of the direction of the tick before (the pending flag on
\* entry is false, so the commit ran).
C18_Witness ==
    /\ last_op.kind = "update" /\ last_op.passed /\ ~last_op.over
    /\ ~last_op.pending
    /\ snake.dir = snake.last_update_dir
    /\ snake.next_dir = None
    /\ Len(snake.body) >= 2
    /\ snake.head = snake.body[2]

(* ------------------------------------------------------------------ *)
(* C19                                                                 *)
(* ------------------------------------------------------------------ *)

\* C19: in every reachable state gameover, ate = Itself and "the head is on
\* a body segment" hold together or not at all; gameover is set only by a
\* tick with outcome Itself and cleared only by a key press.
C19_GameOverIffAteItself ==
    /\ [](/\ gameover <=> (snake.ate = "Itself")
          /\ gameover <=> OnSeq(snake.head, snake.body))
    /\ [][ /\ (~gameover /\ gameover')
                => (Ticked /\ snake'.ate = "Itself")
           /\ (gameover /\ ~gameover') => KeyRan ]_vars

\* C19 witness: the game is over after update ran with its gate failing.
C19_Witness ==
    /\ gameover
    /\ snake.ate = "Itself"
    /\ OnSeq(snake.head, snake.body)
    /\ last_op.kind = "update" /\ ~last_op.passed /\ last_op.over

(* ------------------------------------------------------------------ *)
(* C20                                                                 *)
(* ------------------------------------------------------------------ *)

\* C20: the body always has at least one segment; a tick keeps its length
\* (outcome None) or adds exactly one (outcome Food or Itself); a key press
\* outside game-over changes neither head nor body; the length goes down
\* only on a restart, which brings it back to one.
C20_BodyLength ==
    /\ [](Len(snake.body) >= 1)
    /\ [][ /\ Ticked =>
                /\ snake'.ate = None
                     => Len(snake'.body) = Len(snake.body)
                /\ snake'.ate \in Ate
                     => Len(snake'.body) = Len(snake.body) + 1
           /\ (KeyRan /\ ~gameover)
                => (snake'.head = snake.head /\ snake'.body = snake.body)
           /\ Len(snake'.body) < Len(snake.body)
                => (KeyRan /\ gameover /\ Len(snake'.body) = 1) ]_vars

\* C20 witness: a key pressed while the game was over has just replaced
\* the snake, whose body is back to one segment.
C20_Witness ==
    /\ last_op.kind = "key" /\ last_op.over
    /\ ~gameover
    /\ Len(snake.body) = 1

(* ------------------------------------------------------------------ *)
(* C17                                                                 *)
(* ------------------------------------------------------------------ *)

\* C17: the food is placed without regard to the snake. Whenever the next
\* tick eats, every cell the snake then occupies is a cell that tick can
\* put the new food on; and whenever the game is over, every cell of the
\* new snake is a cell the restart can put the food on. So states with
\* gameover false and the food on the snake are reachable, after the snake
\* eats and at the start of a session.
C17_FoodMayLandOnSnake ==
    /\ (~gameover /\ Len(snake.body) < MaxBody
                  /\ Snake_update(snake, food).ate = "Food")
         => LET s == Snake_update(snake, food) IN
            \A i \in 1 .. Len(s.body) + 1 :
                LET c == (<<s.head>> \o s.body)[i] IN
                ENABLED (food' = c /\ Update(MILLIS_PER_UPDATE))
    /\ gameover
         => \A c \in { [x |-> W \div 4, y |-> H \div 2],
                       [x |-> (W \div 4) - 1, y |-> H \div 2] } :
                ENABLED (food' = c /\ KeyDown("Other"))

\* C17 witness: the snake has just eaten, play goes on, and the new food
\* lies on a segment of its body.
C17_Witness ==
    /\ last_op.kind = "update" /\ last_op.passed /\ ~last_op.over
    /\ snake.ate = "Food"
    /\ ~gameover
    /\ OnSeq(food, snake.body)

(* ------------------------------------------------------------------ *)
(* C12 (under SpecTrace)                                               *)
(* ------------------------------------------------------------------ *)

\* C12: after a press of a perpendicular to the heading, made during play
\* with no turn pending, and then a press of b, not the inverse of a, with
\* no other key pressed, the next tick moves the snake in direction a and,
\* unless that tick ends the game, the tick after it moves it in
\* direction b.
C12_DoubleTurn ==
    [][Ticked =>
        /\ turns.stage = "AB"
             => /\ snake'.last_update_dir = turns.a
                /\ snake'.head = wrapped_move(snake.head, turns.a)
        /\ turns.stage = "B"
             => /\ snake'.last_update_dir = turns.b
                /\ snake'.head = wrapped_move(snake.head, turns.b)
      ]_vars

\* C12 witness: both ticks of a pair of turns are done, the second turn
\* differing from the first.
C12_Witness ==
    /\ turns.stage = "done"
    /\ turns.a # turns.b
    /\ snake.last_update_dir = turns.b
    /\ last_op.kind = "update" /\ last_op.passed

(* ------------------------------------------------------------------ *)
(* C14 (under SpecTrace)                                               *)
(* ------------------------------------------------------------------ *)

\* C14: with update polled at a period no longer than the interval and the
\* game never over, a single poll applies at most one snake step, and at
\* the time T of every poll the number of steps applied so far is
\* floor(T / interval).
C14_StepsMatchTime ==
    /\ [][UpdateRan => applied' <= applied + 1]_vars
    /\ [](~ended => applied = clock \div MILLIS_PER_UPDATE)

(* ------------------------------------------------------------------ *)
(* C15 (under SpecMove)                                                *)
(* ------------------------------------------------------------------ *)

\* The number of cells along the axis of a direction.
axis_length(dir) == IF dir \in {"Left", "Right"} THEN W ELSE H

\* C15: wrapped_move applied n >= 1 times in one direction to an in-range
\* position returns that position exactly when n is a multiple of W (Left,
\* Right) or of H (Up, Down): after W (or H) moves, and after no fewer.
C15_WrapsOncePerTraversal ==
    probe.n >= 1 =>
        ((probe.pos = probe.start) <=> (probe.n % axis_length(probe.dir) = 0))

\* C15 witness: W moves to the Right from the last column are done and the
\* probe is back where it started.
C15_Witness ==
    /\ probe.dir = "Right"
    /\ probe.n = W
    /\ probe.start.x = W - 1
    /\ probe.pos = probe.start

====
